---- MODULE Spec2Model ----
(***************************************************************************)
(* Positional arguments (Arguments, Value, SliceValue) and the reflective  *)
(* callback binder of package cli.                                         *)
(*                                                                         *)
(* The state is one Arguments object with the storage its arguments are    *)
(* bound to, optionally owned by a binder (the callback struct, or the     *)
(* closure of the earlier Callback function), and a record of what the     *)
(* last operation was given, did and returned.                             *)
(***************************************************************************)
EXTENDS Integers, Sequences, FiniteSets, TLC

\* Bounds of the exploration.
MaxArgs == 2      \* arguments registered on one Arguments / parameters of a bound function
MaxTokens == 2    \* length of a token list handed to Parse or to the closure
MaxParses == 2    \* Parse calls / dispatches made on one object

\* Command-line tokens: "1" converts to a bool and to an int, "f" to a bool
\* only, "yo" to neither.
Tokens == {"1", "f", "yo"}

TokenLists == UNION {[1..n -> Tokens] : n \in 0..MaxTokens}

nil == "nil"

----------------------------------------------------------------------------
\* Bound storage.  One cell per argument; a cell has a field for each Go type
\* a bound variable can have, and a Value only ever writes its own field.

ZeroCell == [b |-> FALSE, n |-> 0, s |-> "", l |-> <<>>]

\* strconv.ParseBool: the literals it accepts, any other text is a syntax error
\* and the result is false.
ParseBool(s) ==
    IF s \in {"1", "t", "T", "TRUE", "true", "True"} THEN [v |-> TRUE, err |-> nil]
    ELSE IF s \in {"0", "f", "F", "FALSE", "false", "False"} THEN [v |-> FALSE, err |-> nil]
    ELSE [v |-> FALSE, err |-> "NumError{ErrSyntax}"]

\* The decimal literals among the tokens and their values.
DecimalValue == [s \in {"0", "1"} |-> IF s = "1" THEN 1 ELSE 0]

\* strconv.ParseInt(s, 0, IntSize) and strconv.Atoi on the tokens: a syntax
\* error leaves the result 0.
ParseInt(s) ==
    IF s \in DOMAIN DecimalValue THEN [v |-> DecimalValue[s], err |-> nil]
    ELSE [v |-> 0, err |-> "NumError{ErrSyntax}"]

\* The error a *strconv.NumError wraps.
NumErrorErr ==
    [e \in {"NumError{ErrSyntax}", "NumError{ErrRange}", "NumError{EOF}"} |->
        IF e = "NumError{ErrSyntax}" THEN "ErrSyntax"
        ELSE IF e = "NumError{ErrRange}" THEN "ErrRange" ELSE "EOF"]

\* numError taking every failure of a conversion for a syntax failure.
numError_syntax(err) == IF err \notin DOMAIN NumErrorErr THEN err ELSE "errParse"

numError(err) ==
    IF err \notin DOMAIN NumErrorErr THEN err
    ELSE IF NumErrorErr[err] = "ErrSyntax" THEN "errParse"
    ELSE IF NumErrorErr[err] = "ErrRange" THEN "errRange"
    ELSE NumErrorErr[err]

\* (*boolValue).Set: the converted value is stored whether or not it failed.
boolValue_Set(cell, s) ==
    LET r == ParseBool(s)
    IN [cell |-> [cell EXCEPT !.b = r.v],
        err |-> IF r.err # nil THEN "errParse" ELSE nil]

\* (*intValue).Set
intValue_Set(cell, s) ==
    LET r == ParseInt(s)
    IN [cell |-> [cell EXCEPT !.n = r.v],
        err |-> IF r.err # nil THEN numError(r.err) ELSE nil]

\* A Set that appends to what the variable holds.
stringValue_Set_append(cell, s) == [cell |-> [cell EXCEPT !.s = @ \o s], err |-> nil]

\* (*stringValue).Set
stringValue_Set(cell, s) == [cell |-> [cell EXCEPT !.s = s], err |-> nil]

\* testValue.Set: accepts anything and stores nothing.
testValue_Set(cell, s) == [cell |-> cell, err |-> nil]

\* (*intSlice).Set: appends the converted tokens one by one and stops at the
\* first that does not convert, returning strconv's error as it is.
RECURSIVE intSlice_Set(_, _)
intSlice_Set(cell, str) ==
    IF str = <<>> THEN [cell |-> cell, err |-> nil]
    ELSE LET r == ParseInt(Head(str))
         IN IF r.err = nil
            THEN intSlice_Set([cell EXCEPT !.l = Append(@, r.v)], Tail(str))
            ELSE [cell |-> cell, err |-> r.err]

\* What an argument's value is: the Value implementations and the one
\* SliceValue implementation of the package.
ValueKinds == {"int", "string"}
SliceKind == "intSlice"

IsSliceValue(arg) == arg.value = SliceKind

\* Value.Set by dynamic type.
Value_Set(arg, cell, s) ==
    CASE arg.value = "bool" -> boolValue_Set(cell, s)
      [] arg.value = "int" -> intValue_Set(cell, s)
      [] arg.value = "testValue" -> testValue_Set(cell, s)
      [] OTHER -> stringValue_Set(cell, s)

----------------------------------------------------------------------------
\* Arguments

\* The length test at the head of Arguments.Parse: every registered argument,
\* a SliceValue included, counts as one required token.
NotEnough(as, inp) == Len(inp) < Len(as)

\* The slice of the input a SliceValue is given: input[i:len(input)] (i 1-based here).
SliceTail(inp, i) == SubSeq(inp, i, Len(inp))

\* s.Set(input[i]) on the plain Value of argument i.
SetArg_first(as, st, inp, i) == Value_Set(as[i], st[i], inp[1])

SetArg(as, st, inp, i) == Value_Set(as[i], st[i], inp[i])

\* The loop carrying on after a Set that failed.
RECURSIVE ParseLoop_continue(_, _, _, _, _)
ParseLoop_continue(as, st, inp, i, log) ==
    IF i > Len(as)
    THEN [store |-> st, calls |-> log, err |-> nil, input |-> SubSeq(inp, Len(as) + 1, Len(inp))]
    ELSE IF IsSliceValue(as[i])
    THEN LET r == intSlice_Set(st[i], SliceTail(inp, i))
         IN [store |-> [st EXCEPT ![i] = r.cell],
             calls |-> Append(log, [arg |-> i, toks |-> SliceTail(inp, i)]),
             err |-> r.err, input |-> <<>>]
    ELSE LET r == SetArg(as, st, inp, i)
             st2 == [st EXCEPT ![i] = r.cell]
             log2 == Append(log, [arg |-> i, toks |-> <<inp[i]>>])
             rest == ParseLoop_continue(as, st2, inp, i + 1, log2)
         IN IF r.err # nil THEN [rest EXCEPT !.err = r.err, !.input = <<>>] ELSE rest

\* The loop of Arguments.Parse from argument i on.  st is the bound storage,
\* log the Set calls made so far.  The result carries the storage, the calls,
\* the error returned and the value left in args.input.
RECURSIVE ParseLoop(_, _, _, _, _)
ParseLoop(as, st, inp, i, log) ==
    IF i > Len(as)
    THEN [store |-> st, calls |-> log, err |-> nil, input |-> SubSeq(inp, Len(as) + 1, Len(inp))]
    ELSE IF IsSliceValue(as[i])
    THEN LET r == intSlice_Set(st[i], SliceTail(inp, i))
         IN [store |-> [st EXCEPT ![i] = r.cell],
             calls |-> Append(log, [arg |-> i, toks |-> SliceTail(inp, i)]),
             err |-> r.err, input |-> <<>>]
    ELSE LET r == SetArg(as, st, inp, i)
             st2 == [st EXCEPT ![i] = r.cell]
             log2 == Append(log, [arg |-> i, toks |-> <<inp[i]>>])
         IN IF r.err # nil
            THEN [store |-> st2, calls |-> log2, err |-> r.err, input |-> <<>>]
            ELSE ParseLoop(as, st2, inp, i + 1, log2)

\* Parse clearing the bound storage before it counts the tokens.
Arguments_Parse_clear(as, st, cur, inp) ==
    IF NotEnough(as, inp)
    THEN [store |-> [i \in DOMAIN st |-> ZeroCell], calls |-> <<>>,
          err |-> "errNumArguments", input |-> cur]
    ELSE ParseLoop(as, st, inp, 1, <<>>)

\* Arguments.Parse(input) on an Arguments whose args.input is cur.
Arguments_Parse(as, st, cur, inp) ==
    IF NotEnough(as, inp)
    THEN [store |-> st, calls |-> <<>>, err |-> "errNumArguments", input |-> cur]
    ELSE ParseLoop(as, st, inp, 1, <<>>)

----------------------------------------------------------------------------
VARIABLES
    args,     \* Arguments.args: the registered arguments, in order
    store,    \* store[i]: the variable argument i is bound to
    input,    \* Arguments.input
    cb,       \* the binder that owns the Arguments, if any
    last,     \* the last operation: what it was given, did and returned
    nOps,     \* Parse calls and dispatches made so far
    cmdRev,   \* which Command type the tree is made of: Run(args), or Parse and Run
    cmds,     \* the Commands, the root first, each under the one before it
    ran,      \* the record of the last Command operation
    val,      \* a variable bound to one of the built-in Values: its kind and content
    vlast,    \* the record of the last operation on it
    query     \* a call of Query: what is left to read, what was written, the answer

avars == <<args, store, input, cb, last, nOps>>
cvars == <<cmdRev, cmds, ran>>
vvars == <<val, vlast, query>>
vars == <<args, store, input, cb, last, nOps, cmdRev, cmds, ran, val, vlast, query>>

NoBinder == [rev |-> "none", isFunc |-> FALSE, t |-> <<>>, inputErr |-> nil, variables |-> <<>>]

\* The record of an operation: op its name, input the tokens it was given, err
\* and ret what it returned, parsed whether Arguments.Parse was entered and perr
\* what Parse returned, calls the Set calls Parse made (argument, tokens), pre
\* the storage before the operation, invoked, values and results whether the
\* bound function was called, with what, and what it returned.
Idle == [op |-> "none", input |-> <<>>, err |-> nil, ret |-> <<>>, parsed |-> FALSE,
         perr |-> nil, calls |-> <<>>, pre |-> <<>>, invoked |-> FALSE, values |-> <<>>,
         results |-> <<>>]

\* No Command operation yet: op its name, input the tokens given, ret and err
\* what it returned when outcome is "returned" ("exit", "panic" and "crash" are
\* the ways it ends otherwise, err then being what was printed or raised and
\* code the exit status), and trace what happened on the way, in order.
NotRun == [op |-> "none", input |-> <<>>, ret |-> <<>>, err |-> nil,
           outcome |-> "returned", code |-> 0, trace |-> <<>>]

\* The content of a variable bound to a built-in Value: b of a bool, n of an
\* integer (the number of seconds of a duration, the number of halves of a
\* finite float64), c the class of a float64, s of a string (its characters).
ZeroScalar == [b |-> FALSE, n |-> 0, c |-> "finite", s |-> <<>>]

\* No variable bound to a Value yet; no operation on one (op its name, text
\* what Set was given, before the content before it, raw the error of the
\* conversion and err the error returned); no call of Query (pc where it is,
\* accept the answers it takes, input the lines of its reader and lines those
\* not read yet, invalid how many times it wrote "Invalid input", resp the
\* answer it read last).
NoValue == [kind |-> "none", v |-> ZeroScalar]
NoSet == [op |-> "none", text |-> <<>>, before |-> ZeroScalar, raw |-> nil, err |-> nil]
NoQuery == [pc |-> "none", accept |-> {}, input |-> <<>>, lines |-> <<>>, invalid |-> 0,
            resp |-> <<>>]

Init ==
    /\ args = <<>>
    /\ store = <<>>
    /\ input = <<>>
    /\ cb = NoBinder
    /\ last = Idle
    /\ nOps = 0
    /\ cmdRev = "none"
    /\ cmds = <<>>
    /\ ran = NotRun
    /\ val = NoValue
    /\ vlast = NoSet
    /\ query = NoQuery

\* Arguments.Var, reached through Int and String (each binds new, zeroed
\* storage).  The arguments are registered before the first Parse.
Var(kind) ==
    /\ cb.rev = "none"
    /\ nOps = 0
    /\ Len(args) < MaxArgs
    /\ args' = Append(args, [value |-> kind])
    /\ store' = Append(store, ZeroCell)
    /\ last' = [Idle EXCEPT !.op = "Var"]
    /\ UNCHANGED <<input, cb, nOps>>

\* Arguments.VarSlice with an empty intSlice.
VarSlice ==
    /\ cb.rev = "none"
    /\ nOps = 0
    /\ Len(args) < MaxArgs
    /\ args' = Append(args, [value |-> SliceKind])
    /\ store' = Append(store, ZeroCell)
    /\ last' = [Idle EXCEPT !.op = "VarSlice"]
    /\ UNCHANGED <<input, cb, nOps>>

\* A caller's Arguments.Parse(tokens).
Parse(tokens) ==
    /\ cb.rev = "none"
    /\ nOps < MaxParses
    /\ LET r == Arguments_Parse(args, store, input, tokens)
       IN /\ store' = r.store
          /\ input' = r.input
          /\ last' = [Idle EXCEPT !.op = "Parse", !.input = tokens, !.err = r.err,
                                  !.ret = r.input, !.parsed = TRUE, !.perr = r.err,
                                  !.calls = r.calls, !.pre = store]
    /\ nOps' = nOps + 1
    /\ UNCHANGED <<args, cb>>

----------------------------------------------------------------------------
\* The binder

\* The parameter types of the functions handed to the binder: int stands for
\* the eight built-in scalars, which process and Callback treat alike.
ParamTypes == {"int", "boolValue", "*boolValue", "*intSlice", "time.Time"}

\* reflect: Kind() == reflect.Ptr, reflect.PtrTo and Elem.
IsPtr(T) == T \in {"*boolValue", "*intSlice", "*testValue", "*time.Time", "*int"}
PtrTo(T) == "*" \o T
Elem(T) ==
    CASE T = "*boolValue" -> "boolValue"
      [] T = "*intSlice" -> "intSlice"
      [] T = "*testValue" -> "testValue"
      [] T = "*time.Time" -> "time.Time"
      [] OTHER -> "int"

\* reflect's Type.Implements, from the method sets: boolValue and intSlice
\* declare String and Set on the pointer receiver, testValue on the value
\* receiver (so both testValue and *testValue have them).
ImplementsValue(T) == T \in {"*boolValue", "testValue", "*testValue"}
ImplementsSliceValue(T) == T \in {"*intSlice"}

\* The Value or SliceValue an instance of type T made by reflect.New is.
KindOf(T) ==
    CASE T = "boolValue" -> "bool"
      [] T = "intSlice" -> SliceKind
      [] T = "testValue" -> "testValue"
      [] OTHER -> "int"

\* A binder under construction: the Arguments and storage it has built so far.
NewBinding(rev, isFunc, t) ==
    [rev |-> rev, isFunc |-> isFunc, t |-> t, inputErr |-> nil, variables |-> <<>>,
     args |-> <<>>, store |-> <<>>]

\* Register one argument of the given kind on the binder's Arguments, bound to
\* new storage, and keep the storage handle (addVar).
AddArgument(b, kind) ==
    [b EXCEPT !.args = Append(@, [value |-> kind]),
              !.store = Append(@, ZeroCell),
              !.variables = Append(@, Len(b.store) + 1)]

\* tryValue without the retry in pointer form.
tryValue_asDeclared(b, arg, want) ==
    LET ok == IF want = "Value" THEN ImplementsValue(arg) ELSE ImplementsSliceValue(arg)
    IN [ok |-> ok /\ IsPtr(arg), b |-> IF ok /\ IsPtr(arg) THEN AddArgument(b, KindOf(Elem(arg))) ELSE b]

\* callback.tryValue: a non-pointer type is tried in its pointer form.
tryValue(b, arg, want) ==
    LET p == IF IsPtr(arg) THEN arg ELSE PtrTo(arg)
        ok == IF want = "Value" THEN ImplementsValue(p) ELSE ImplementsSliceValue(p)
    IN [ok |-> ok, b |-> IF ok THEN AddArgument(b, KindOf(Elem(p))) ELSE b]

\* One turn of the loop of callback.process, for parameter i.
processParam(b, i) ==
    LET inArg == b.t[i]
    IN IF inArg = "int" THEN AddArgument(b, "int")
       ELSE LET v == tryValue(b, inArg, "Value")
                sv == tryValue(b, inArg, "SliceValue")
            IN IF v.ok THEN v.b
               ELSE IF sv.ok THEN sv.b
               ELSE [b EXCEPT !.inputErr =
                        inArg \o " must implement either Value or ValueSlice interfaces"]

RECURSIVE processFrom(_, _)
processFrom(b, i) ==
    IF i > Len(b.t) THEN b ELSE processFrom(processParam(b, i), i + 1)

\* callback.process
process(isFunc, t) ==
    IF ~isFunc
    THEN [NewBinding("process", isFunc, t) EXCEPT !.inputErr = "Provided callback is not a function"]
    ELSE processFrom(NewBinding("process", isFunc, t), 1)

\* The earlier loop trying a non-pointer type in its pointer form.
CallbackParam_ptrForm(b, i) == processParam(b, i)

\* One turn of the loop of the earlier Callback function, for parameter i.
CallbackParam(b, i) ==
    LET inArg == b.t[i]
    IN IF inArg = "int" THEN AddArgument(b, "int")
       ELSE IF ImplementsValue(inArg)
       THEN IF IsPtr(inArg) THEN AddArgument(b, KindOf(Elem(inArg)))
            ELSE [b EXCEPT !.inputErr =
                     inArg \o " argument must be a pointer to a type implementing Value"]
       ELSE IF ImplementsSliceValue(inArg)
       THEN IF IsPtr(inArg) THEN AddArgument(b, KindOf(Elem(inArg)))
            ELSE [b EXCEPT !.inputErr =
                     inArg \o " argument must be a pointer to a type implementing Value"]
       ELSE [b EXCEPT !.inputErr = "Type " \o inArg \o " does not implement Value interface"]

RECURSIVE CallbackFrom(_, _)
CallbackFrom(b, i) ==
    IF i > Len(b.t) THEN b ELSE CallbackFrom(CallbackParam(b, i), i + 1)

\* The construction part of the earlier Callback function.
CallbackConstruct(isFunc, t) ==
    IF ~isFunc
    THEN [NewBinding("Callback", isFunc, t) EXCEPT !.inputErr = "Provided callback is not a function"]
    ELSE CallbackFrom(NewBinding("Callback", isFunc, t), 1)

\* The first result of the call taken for its error.
getError_first(values) ==
    IF Len(values) > 0 /\ values[1].isErr THEN values[1].v ELSE nil

\* getError: the last result of the call, when it is an error.
getError(values) ==
    IF Len(values) > 0 /\ values[Len(values)].isErr THEN values[Len(values)].v ELSE nil

\* What one call of a bound function may return.
FuncResults ==
    {<<>>, <<[isErr |-> TRUE, v |-> nil]>>,
     <<[isErr |-> FALSE, v |-> "42"], [isErr |-> TRUE, v |-> "userErr"]>>,
     <<[isErr |-> TRUE, v |-> "userErr"], [isErr |-> FALSE, v |-> "42"]>>}

\* A call argument list that dereferences every stored pointer.
CallValues_deref(b, st) ==
    [i \in 1..Len(b.variables) |-> [ptr |-> FALSE, v |-> st[b.variables[i]]]]

\* The reflective call argument list: the stored pointer for a pointer
\* parameter, the value it points at otherwise.
CallValues(b, st) ==
    [i \in 1..Len(b.variables) |-> [ptr |-> IsPtr(b.t[i]), v |-> st[b.variables[i]]]]

\* The functions and non-functions handed to the binder.
ParamLists == UNION {[1..n -> ParamTypes] : n \in 0..MaxArgs}

Install(b) ==
    /\ cb' = [rev |-> b.rev, isFunc |-> b.isFunc, t |-> b.t, inputErr |-> b.inputErr,
              variables |-> b.variables]
    /\ args' = b.args
    /\ store' = b.store
    /\ last' = [Idle EXCEPT !.op = "Callback"]
    /\ UNCHANGED <<input, nOps>>

\* Callback(f) with the callback struct: cb.process, then the closure exists.
BindProcess(isFunc, t) ==
    /\ cb.rev = "none" /\ args = <<>> /\ nOps = 0
    /\ Install(process(isFunc, t))

\* Callback(f) of the earlier revision.
BindCallback(isFunc, t) ==
    /\ cb.rev = "none" /\ args = <<>> /\ nOps = 0
    /\ Install(CallbackConstruct(isFunc, t))

\* The test at the head of the closure: a construction error was recorded.
Latched_never(b) == FALSE

Latched(b) == b.inputErr # nil

\* The return of the closure that hands back the token list parsed so far.
parseFailed_Args(tokens, r) == [ret |-> r.input, err |-> r.err]

\* The return of the closure when Arguments.Parse failed: `return args, err`.
parseFailed(tokens, r) == [ret |-> tokens, err |-> r.err]

\* The closure: callback.callback, and the func literal the earlier Callback
\* returns (the same statements; its Arguments is taken to be the one with
\* SliceValue, as the types it names require).  results is what the bound
\* function returns when the call reaches it.
callback(tokens) ==
    /\ cb.rev # "none"
    /\ nOps < MaxParses
    /\ nOps' = nOps + 1
    /\ UNCHANGED <<args, cb>>
    /\ IF Latched(cb)
       THEN /\ last' = [Idle EXCEPT !.op = "callback", !.input = tokens,
                                    !.err = cb.inputErr, !.ret = tokens, !.pre = store]
            /\ UNCHANGED <<store, input>>
       ELSE LET r == Arguments_Parse(args, store, input, tokens)
            IN /\ store' = r.store
               /\ input' = r.input
               /\ IF r.err = nil
                  THEN \E results \in FuncResults :
                         last' = [Idle EXCEPT !.op = "callback", !.input = tokens,
                                            !.err = getError(results), !.ret = r.input,
                                            !.parsed = TRUE, !.calls = r.calls,
                                            !.pre = store, !.invoked = TRUE,
                                            !.values = CallValues(cb, r.store),
                                            !.results = results]
                  ELSE last' =
                               [Idle EXCEPT !.op = "callback", !.input = tokens,
                                            !.err = parseFailed(tokens, r).err,
                                            !.ret = parseFailed(tokens, r).ret,
                                            !.parsed = TRUE, !.perr = r.err,
                                            !.calls = r.calls, !.pre = store]

Next ==
    \/ \E kind \in ValueKinds : Var(kind) /\ UNCHANGED <<cvars, vvars>>
    \/ VarSlice /\ UNCHANGED <<cvars, vvars>>
    \/ \E tokens \in TokenLists : Parse(tokens) /\ UNCHANGED <<cvars, vvars>>
    \/ \E t \in ParamLists : BindProcess(TRUE, t) /\ UNCHANGED <<cvars, vvars>>
    \/ BindProcess(FALSE, <<>>) /\ UNCHANGED <<cvars, vvars>>
    \/ \E t \in ParamLists : BindCallback(TRUE, t) /\ UNCHANGED <<cvars, vvars>>
    \/ BindCallback(FALSE, <<>>) /\ UNCHANGED <<cvars, vvars>>
    \/ \E tokens \in TokenLists : callback(tokens) /\ UNCHANGED <<cvars, vvars>>

Spec == Init /\ [][Next]_vars

----------------------------------------------------------------------------
\* Command: the tree of named commands.  Two revisions of the type are in the
\* package: the one whose Run(args) parses and dispatches in one traversal
\* (cmdRev "Run"), and the earlier one with Parse(args) followed by Run()
\* (cmdRev "Parse").  A tree is built, then traversed once.

MaxDepth == 2        \* Commands on the path from the root to the deepest one
MaxCmdTokens == 3    \* length of a token list handed to Run(args) or Parse(args)

\* The tokens handed to a Command: the name every child is registered under,
\* and a token that is no child's name and converts to an int.
ChildName == "foo"
CmdTokens == {ChildName, "1"}
CmdTokenLists == UNION {[1..n -> CmdTokens] : n \in 0..MaxCmdTokens}

\* ErrorHandling
ExitOnError == 0
ContinueOnError == 1
PanicOnError == 2
ErrorHandling == {ExitOnError, ContinueOnError, PanicOnError}

\* The status os.Exit is given by handleErr.
ExitStatus == 2

\* The output sinks: the default, and a writer of the caller's.
Sinks == {"os.Stderr", "buf"}

\* errors.Unwrap on the errors of the package: the usage errors wrap ErrUsage,
\* and runSubcommand wraps ErrUnknownCommand and ErrNoCommandFunc once more.
Unwrap(e) ==
    IF e \in {"ErrUnknownCommand", "ErrRequiredCommand", "ErrNoCommandFunc", "errNumArguments"}
    THEN "ErrUsage"
    ELSE IF e \in {"ErrUnknownCommand " \o n : n \in CmdTokens} THEN "ErrUnknownCommand"
    ELSE IF e \in {"ErrNoCommandFunc for " \o n : n \in CmdTokens} THEN "ErrNoCommandFunc"
    ELSE nil

\* errors.Is
RECURSIVE Is(_, _)
Is(e, target) == e = target \/ (Unwrap(e) # nil /\ Is(Unwrap(e), target))

\* A Command without a callback, and the CommandFunc that Callback(f) returns:
\* the binder built for f and what f returns when it is called.
NoFunc == [bound |-> FALSE, binder |-> NoBinder, results |-> <<>>]
NoArguments == [args |-> <<>>, store |-> <<>>, input |-> <<>>]

\* The functions bound as callbacks: func() error returning nil, an error of
\* its own, or ErrNoCommandFunc; func(int) error and func(*intSlice) error
\* returning nil.
BoundFuncs ==
    {[t |-> <<>>, results |-> <<[isErr |-> TRUE, v |-> nil]>>],
     [t |-> <<>>, results |-> <<[isErr |-> TRUE, v |-> "userErr"]>>],
     [t |-> <<>>, results |-> <<[isErr |-> TRUE, v |-> "ErrNoCommandFunc"]>>],
     [t |-> <<"int">>, results |-> <<[isErr |-> TRUE, v |-> nil]>>],
     [t |-> <<"*intSlice">>, results |-> <<[isErr |-> TRUE, v |-> nil]>>]}

\* The options given to New: none, or one of ErrorHandlingOption and
\* OutputOption; those given to SubCommand: none, or an ErrorHandlingOption.
ErrorHandlingOptions ==
    {[opt |-> "ErrorHandling", eh |-> p, out |-> "os.Stderr"] : p \in ErrorHandling}
OutputOptions == {[opt |-> "Output", eh |-> ExitOnError, out |-> "buf"]}
NewOptionLists == {<<>>} \cup {<<o>> : o \in ErrorHandlingOptions \cup OutputOptions}
SubCommandOptionLists == {<<>>} \cup {<<o>> : o \in ErrorHandlingOptions}

\* ErrorHandlingOption(p)(cmd), OutputOption(w)(cmd)
ApplyOption(cmd, o) ==
    IF o.opt = "ErrorHandling" THEN [cmd EXCEPT !.errorHandling = o.eh]
    ELSE [cmd EXCEPT !.output = o.out]

\* for _, option := range options { option(cmd) }
RECURSIVE ApplyOptions(_, _)
ApplyOptions(cmd, options) ==
    IF options = <<>> THEN cmd
    ELSE ApplyOptions(ApplyOption(cmd, Head(options)), Tail(options))

\* New(name, options...).  arguments is the Arguments of the Command (of the
\* binder behind its callback in the Run(args) revision), args and subCommand
\* the fields Parse leaves for Run in the earlier revision (0: nil).
New(name, options) ==
    ApplyOptions([Name |-> name, Callback |-> NoFunc, SubCommands |-> <<>>,
                  errorHandling |-> ExitOnError, output |-> "os.Stderr",
                  flagsOutput |-> "os.Stderr",
                  arguments |-> NoArguments, args |-> <<>>, subCommand |-> 0],
                 options)

\* cmd.SubCommand(name, options...) of the Run(args) revision: the child takes
\* the parent's errorHandling, then its own options.
NewSubCommand(cmd, name, options) ==
    ApplyOptions([New(name, <<>>) EXCEPT !.flagsOutput = cmd.output,
                                         !.errorHandling = cmd.errorHandling],
                 options)

\* cmd.SubCommand(name, options...) of the earlier revision.
NewSubCommandParse(cmd, name, options) ==
    [New(name, options) EXCEPT !.flagsOutput = cmd.output]

\* What happens during a traversal, in order: a Run or Parse entered ("Run",
\* "Parse"), a callback called and what it returned ("callback"), an error
\* handler entered ("handleErr"), an error written to a sink ("print", usage
\* telling whether the usage text follows it).
Event(ev, node) ==
    [ev |-> ev, node |-> node, toks |-> <<>>, ret |-> <<>>, err |-> nil,
     sink |-> "", usage |-> FALSE]

\* cmd.Flags.Parse(args) and cmd.Flags.Args() with no flag registered, on
\* tokens none of which begins with "-": every token is positional.
Flags_Parse(a) == [err |-> nil, args |-> a]

\* The closure Callback(f) returned, called as cmd.Callback(cmd.Name, args...).
CommandFunc_call(cmd, tokens) ==
    LET b == cmd.Callback.binder
        A == cmd.arguments
    IN IF Latched(b)
       THEN [ret |-> tokens, err |-> b.inputErr, arguments |-> A]
       ELSE LET r == Arguments_Parse(A.args, A.store, A.input, tokens)
                A2 == [A EXCEPT !.store = r.store, !.input = r.input]
            IN IF r.err = nil
               THEN [ret |-> r.input, err |-> getError(cmd.Callback.results), arguments |-> A2]
               ELSE [ret |-> parseFailed(tokens, r).ret, err |-> parseFailed(tokens, r).err,
                     arguments |-> A2]

\* An error handler that prints the usage text after every error.
handleErr_usage(cmd, i, err) ==
    LET entered == [Event("handleErr", i) EXCEPT !.err = err]
    IN IF err # nil /\ cmd.errorHandling = ExitOnError
       THEN [err |-> err, outcome |-> "exit",
             trace |-> <<entered,
                         [Event("print", i) EXCEPT !.err = err, !.sink = cmd.output,
                                                   !.usage = TRUE]>>]
       ELSE IF err # nil /\ cmd.errorHandling = PanicOnError
       THEN [err |-> err, outcome |-> "panic", trace |-> <<entered>>]
       ELSE [err |-> err, outcome |-> "returned", trace |-> <<entered>>]

\* An error handler that returns every error to its caller.
handleErr_return(cmd, i, err) ==
    [err |-> err, outcome |-> "returned", trace |-> <<[Event("handleErr", i) EXCEPT !.err = err]>>]

\* cmd.handleErr(err) of the Run(args) revision, cmd being node i.
handleErr(cmd, i, err) ==
    LET entered == [Event("handleErr", i) EXCEPT !.err = err]
    IN IF err # nil /\ cmd.errorHandling = ExitOnError
       THEN [err |-> err, outcome |-> "exit",
             trace |-> <<entered,
                         [Event("print", i) EXCEPT !.err = err, !.sink = cmd.output,
                                                   !.usage = Is(err, "ErrUsage")]>>]
       ELSE IF err # nil /\ cmd.errorHandling = PanicOnError
       THEN [err |-> err, outcome |-> "panic", trace |-> <<entered>>]
       ELSE [err |-> err, outcome |-> "returned", trace |-> <<entered>>]

\* A Lookup that finds the first child whatever the name.
Lookup_first(c, i, name) ==
    IF c[i].SubCommands = <<>> THEN 0 ELSE c[i].SubCommands[1]

\* cmd.Lookup(name): the child of node i registered under name, 0 when none.
Lookup(c, i, name) ==
    LET found == {k \in DOMAIN c[i].SubCommands : c[c[i].SubCommands[k]].Name = name}
    IN IF found = {} THEN 0 ELSE c[i].SubCommands[CHOOSE k \in found : TRUE]

\* runCallback handing back the tokens it was given, whatever the callback
\* returned.
runCallback_args(c, i, a) ==
    IF ~c[i].Callback.bound
    THEN [cmds |-> c, ret |-> a, err |-> "ErrNoCommandFunc", outcome |-> "returned",
          trace |-> <<>>]
    ELSE LET o == CommandFunc_call(c[i], a)
         IN [cmds |-> [c EXCEPT ![i].arguments = o.arguments], ret |-> a, err |-> o.err,
             outcome |-> "returned",
             trace |-> <<[Event("callback", i) EXCEPT !.toks = a, !.ret = o.ret,
                                                      !.err = o.err]>>]

\* cmd.runCallback(args)
runCallback(c, i, a) ==
    IF ~c[i].Callback.bound
    THEN [cmds |-> c, ret |-> a, err |-> "ErrNoCommandFunc", outcome |-> "returned",
          trace |-> <<>>]
    ELSE LET o == CommandFunc_call(c[i], a)
         IN [cmds |-> [c EXCEPT ![i].arguments = o.arguments], ret |-> o.ret, err |-> o.err,
             outcome |-> "returned",
             trace |-> <<[Event("callback", i) EXCEPT !.toks = a, !.ret = o.ret,
                                                      !.err = o.err]>>]

\* The test of Run that sends an error of the callback on to the children.
goesOn_nil(err) == err = nil

\* The test of Run: the callback did not fail, or there was none.
goesOn(err) == err = nil \/ Is(err, "ErrNoCommandFunc")

\* runSubcommand without the test for an empty token list.
runSubcommand_unchecked(c, i, a, child) ==
    IF Len(a) < 1 \/ Lookup(c, i, a[1]) = 0
    THEN [cmds |-> c, ret |-> a, err |-> "ErrUnknownCommand", outcome |-> "returned",
          trace |-> <<>>]
    ELSE child

\* cmd.runSubcommand(args); child is what subCmd.Run(subCmdArgs) does.
runSubcommand(c, i, a, child) ==
    LET fails(e) == [cmds |-> c, ret |-> a, err |-> e, outcome |-> "returned", trace |-> <<>>]
    IN IF Len(c[i].SubCommands) > 0
       THEN IF Len(a) < 1 THEN fails("ErrRequiredCommand")
            ELSE IF Lookup(c, i, a[1]) = 0 THEN fails("ErrUnknownCommand " \o a[1])
            ELSE child
       ELSE IF Len(a) < 1
       THEN [fails("index out of range") EXCEPT !.outcome = "crash"]
       ELSE fails("ErrNoCommandFunc for " \o a[1])

\* A Run in which only the root applies its error handler.
RunBody_rootOnly(c, i, a, rc, sub) ==
    LET entered == [Event("Run", i) EXCEPT !.toks = a]
        rs == IF Len(c[i].SubCommands) > 0 /\ goesOn(rc.err)
              THEN sub
              ELSE [rc EXCEPT !.trace = <<>>]
        body == [rs EXCEPT !.trace = <<entered>> \o rc.trace \o rs.trace]
        h == handleErr(body.cmds[i], i, body.err)
    IN IF body.outcome # "returned" \/ i # 1 THEN body
       ELSE [body EXCEPT !.err = h.err, !.outcome = h.outcome, !.trace = body.trace \o h.trace]

\* cmd.Run(args) of node i; rc is what runCallback did and sub what
\* runSubcommand does after it.
RunBody(c, i, a, rc, sub) ==
    LET entered == [Event("Run", i) EXCEPT !.toks = a]
        fp == Flags_Parse(a)
        rs == IF Len(c[i].SubCommands) > 0 /\ goesOn(rc.err)
              THEN sub
              ELSE [rc EXCEPT !.trace = <<>>]
        body == IF fp.err # nil
                THEN [cmds |-> c, ret |-> a, err |-> fp.err, outcome |-> "returned",
                      trace |-> <<entered>>]
                ELSE [rs EXCEPT !.trace = <<entered>> \o rc.trace \o rs.trace]
        h == handleErr(body.cmds[i], i, body.err)
    IN IF body.outcome # "returned" THEN body
       ELSE [body EXCEPT !.err = h.err, !.outcome = h.outcome, !.trace = body.trace \o h.trace]

\* The node args[0] selects under node i.
subCmd(c, i, a) == Lookup(c, i, a[1])

\* cmd.Run(args) of node i from the point where runCallback has returned rc.
RECURSIVE RunAfterCallback(_, _, _, _)
RunAfterCallback(c, i, a, rc) ==
    RunBody(c, i, a, rc,
            runSubcommand(rc.cmds, i, rc.ret,
                          RunAfterCallback(rc.cmds, subCmd(rc.cmds, i, rc.ret), Tail(rc.ret),
                                           runCallback(rc.cmds, subCmd(rc.cmds, i, rc.ret),
                                              Flags_Parse(Tail(rc.ret)).args))))

\* cmd.Run(args), cmd being node i of c.
Command_Run(c, i, a) == RunAfterCallback(c, i, a, runCallback(c, i, Flags_Parse(a).args))

\* New(name, options...) makes the root, of one revision or the other.
NewRoot(rev, options) ==
    /\ cmdRev = "none"
    /\ cmdRev' = rev
    /\ cmds' = <<New("root", options)>>
    /\ UNCHANGED <<ran, avars>>

\* SubCommand(ChildName, options...) on the deepest Command.
SubCommand(options) ==
    /\ cmdRev # "none" /\ ran.op = "none"
    /\ Len(cmds) < MaxDepth
    /\ LET i == Len(cmds)
           child == IF cmdRev = "Run" THEN NewSubCommand(cmds[i], ChildName, options)
                    ELSE NewSubCommandParse(cmds[i], ChildName, options)
       IN cmds' = Append([cmds EXCEPT ![i].SubCommands = Append(@, i + 1)], child)
    /\ UNCHANGED <<cmdRev, ran, avars>>

\* cmd.Callback = Callback(f) on node i, done once.
SetCallback(i, f) ==
    /\ cmdRev = "Run" /\ ran.op = "none"
    /\ i \in DOMAIN cmds
    /\ ~cmds[i].Callback.bound
    /\ LET b == process(TRUE, f.t)
       IN cmds' = [cmds EXCEPT
                     ![i].Callback = [bound |-> TRUE,
                                      binder |-> [rev |-> b.rev, isFunc |-> b.isFunc, t |-> b.t,
                                                  inputErr |-> b.inputErr,
                                                  variables |-> b.variables],
                                      results |-> f.results],
                     ![i].arguments = [args |-> b.args, store |-> b.store, input |-> <<>>]]
    /\ UNCHANGED <<cmdRev, ran, avars>>

\* root.Run(tokens)
Run(tokens) ==
    /\ cmdRev = "Run" /\ ran.op = "none"
    /\ LET r == Command_Run(cmds, 1, tokens)
       IN /\ cmds' = r.cmds
          /\ ran' = [op |-> "Run", input |-> tokens, ret |-> r.ret, err |-> r.err,
                     outcome |-> r.outcome,
                     code |-> IF r.outcome = "exit" THEN ExitStatus ELSE 0,
                     trace |-> r.trace]
    /\ UNCHANGED <<cmdRev, avars>>

\* ---- The earlier revision: Parse(args), then Run() ----

\* The func() error values set as callbacks there: one returning nil, one
\* returning an error of its own.
ParseFuncs ==
    {[t |-> <<>>, results |-> <<[isErr |-> TRUE, v |-> nil]>>],
     [t |-> <<>>, results |-> <<[isErr |-> TRUE, v |-> "userErr"]>>]}

\* The loop of the earlier Arguments.Parse over a slice argument: Set on each
\* token from i on, stopping at the first that fails.
RECURSIVE SetEach(_, _, _, _)
SetEach(arg, cell, inp, j) ==
    IF j > Len(inp) THEN [cell |-> cell, err |-> nil]
    ELSE IF Value_Set(arg, cell, inp[j]).err # nil THEN Value_Set(arg, cell, inp[j])
    ELSE SetEach(arg, Value_Set(arg, cell, inp[j]).cell, inp, j + 1)

\* The loop of the earlier Arguments.Parse from argument i on.
RECURSIVE EarlierParseLoop(_, _, _, _)
EarlierParseLoop(as, st, inp, i) ==
    IF i > Len(as) THEN [store |-> st, err |-> nil, input |-> inp]
    ELSE IF as[i].slice
    THEN [store |-> [st EXCEPT ![i] = SetEach(as[i], st[i], inp, i).cell],
          err |-> SetEach(as[i], st[i], inp, i).err, input |-> inp]
    ELSE IF Value_Set(as[i], st[i], inp[i]).err # nil
    THEN [store |-> [st EXCEPT ![i] = Value_Set(as[i], st[i], inp[i]).cell],
          err |-> Value_Set(as[i], st[i], inp[i]).err, input |-> inp]
    ELSE EarlierParseLoop(as, [st EXCEPT ![i] = Value_Set(as[i], st[i], inp[i]).cell], inp, i + 1)

\* Arguments.Parse(input) of the earlier Arguments, whose args.input is cur.
EarlierArguments_Parse(as, st, cur, inp) ==
    IF Len(inp) < Len(as)
    THEN [store |-> st, err |-> "errNumArguments", input |-> cur]
    ELSE EarlierParseLoop(as, st, inp, 1)

\* cmd.handleErr(err) of the earlier revision: the usage always follows.
handleErrParse(cmd, i, err) ==
    LET entered == [Event("handleErr", i) EXCEPT !.err = err]
    IN IF err # nil /\ cmd.errorHandling = ExitOnError
       THEN [err |-> err, outcome |-> "exit",
             trace |-> <<entered,
                         [Event("print", i) EXCEPT !.err = err, !.sink = cmd.output,
                                                   !.usage = TRUE]>>]
       ELSE IF err # nil /\ cmd.errorHandling = PanicOnError
       THEN [err |-> err, outcome |-> "panic", trace |-> <<entered>>]
       ELSE [err |-> err, outcome |-> "returned", trace |-> <<entered>>]

\* The head of Parse on node i: the flags, then the node's own Arguments and
\* cmd.args = cmd.Arguments.Args(), which slices args.input from len(args.args)
\* and so needs an input at least that long.
parseArguments(c, i, a) ==
    LET entered == [Event("Parse", i) EXCEPT !.toks = a]
        A == c[i].arguments
        c1 == [c EXCEPT ![i].args = Flags_Parse(a).args]
        pr == EarlierArguments_Parse(A.args, A.store, A.input, c1[i].args)
        c2 == [c1 EXCEPT ![i].arguments = [A EXCEPT !.store = pr.store, !.input = pr.input]]
        h == handleErrParse(c[i], i, pr.err)
    IN IF Len(A.args) = 0
       THEN [cmds |-> c1, err |-> nil, outcome |-> "returned", trace |-> <<entered>>]
       ELSE IF h.outcome # "returned"
       THEN [cmds |-> c2, err |-> h.err, outcome |-> h.outcome, trace |-> <<entered>> \o h.trace]
       ELSE IF Len(pr.input) < Len(A.args)
       THEN [cmds |-> c2, err |-> "slice bounds out of range", outcome |-> "crash",
             trace |-> <<entered>> \o h.trace]
       ELSE [cmds |-> [c2 EXCEPT ![i].args = SubSeq(pr.input, Len(A.args) + 1, Len(pr.input))],
             err |-> h.err, outcome |-> "returned", trace |-> <<entered>> \o h.trace]

\* A selection that leaves the selector among the tokens of the child.
selectSubCommand_keep(c, i) ==
    [c EXCEPT ![i].subCommand = Lookup(c, i, c[i].args[1])]

\* cmdName := cmd.args[0]; cmd.args = cmd.args[1:];
\* cmd.subCommand = cmd.subCommands.get(cmdName)
selectSubCommand(c, i) ==
    [c EXCEPT ![i].args = Tail(@), ![i].subCommand = Lookup(c, i, c[i].args[1])]

\* The rest of Parse on node i after pa, the head; child is what
\* cmd.subCommand.Parse(cmd.args) does, whose error Parse does not keep.
parseSubCommands(pa, i, child) ==
    LET cmd == pa.cmds[i]
        req == IF Len(cmd.args) < 1 THEN handleErrParse(cmd, i, "ErrRequiredCommand")
               ELSE [err |-> pa.err, outcome |-> "returned", trace |-> <<>>]
        sel == selectSubCommand(pa.cmds, i)
        unk == handleErrParse(cmd, i, "ErrUnknownCommand")
    IN IF pa.outcome # "returned" \/ Len(cmd.SubCommands) = 0 THEN pa
       ELSE IF req.outcome # "returned" \/ req.err # nil
       THEN [pa EXCEPT !.err = req.err, !.outcome = req.outcome, !.trace = @ \o req.trace]
       ELSE IF sel[i].subCommand = 0
       THEN [cmds |-> sel, err |-> unk.err, outcome |-> unk.outcome,
             trace |-> pa.trace \o unk.trace]
       ELSE [cmds |-> child.cmds,
             err |-> IF child.outcome = "returned" THEN nil ELSE child.err,
             outcome |-> child.outcome, trace |-> pa.trace \o child.trace]

\* cmd.Parse(args) of node i from the point where its head has done pa.
RECURSIVE ParseAfterArguments(_, _)
ParseAfterArguments(pa, i) ==
    parseSubCommands(pa, i,
        ParseAfterArguments(parseArguments(selectSubCommand(pa.cmds, i),
                                           selectSubCommand(pa.cmds, i)[i].subCommand,
                                           selectSubCommand(pa.cmds, i)[i].args),
                            selectSubCommand(pa.cmds, i)[i].subCommand))

\* cmd.Parse(args), cmd being node i of c.
Command_Parse(c, i, a) == ParseAfterArguments(parseArguments(c, i, a), i)

\* Run() of node i, a nil *Command when i is 0; child is what
\* cmd.subCommand.Run() does.
runParsed(c, i, child) ==
    LET entered == Event("Run", i)
        called == [Event("callback", i) EXCEPT !.err = c[i].Callback.results[1].v]
    IN IF i = 0
       THEN [err |-> "nil pointer dereference", outcome |-> "crash", trace |-> <<>>]
       ELSE IF ~c[i].Callback.bound
       THEN [child EXCEPT !.trace = <<entered>> \o @]
       ELSE IF called.err = nil /\ c[i].subCommand # 0
       THEN [child EXCEPT !.trace = <<entered, called>> \o @]
       ELSE [err |-> called.err, outcome |-> "returned", trace |-> <<entered, called>>]

\* cmd.Run() of the earlier revision.
RECURSIVE Command_RunParsed(_, _)
Command_RunParsed(c, i) == runParsed(c, i, Command_RunParsed(c, c[i].subCommand))

\* cmd.callback = f on node i, done once.
SetCallbackParse(i, f) ==
    /\ cmdRev = "Parse" /\ ran.op = "none"
    /\ i \in DOMAIN cmds
    /\ ~cmds[i].Callback.bound
    /\ cmds' = [cmds EXCEPT ![i].Callback = [bound |-> TRUE, binder |-> NoBinder,
                                             results |-> f.results]]
    /\ UNCHANGED <<cmdRev, ran, avars>>

\* cmd.Arguments.String(&v, "") on node i: one positional argument per node.
ArgumentsString(i) ==
    /\ cmdRev = "Parse" /\ ran.op = "none"
    /\ i \in DOMAIN cmds
    /\ cmds[i].arguments.args = <<>>
    /\ cmds' = [cmds EXCEPT ![i].arguments =
                   [args |-> <<[value |-> "string", slice |-> FALSE]>>,
                    store |-> <<ZeroCell>>, input |-> <<>>]]
    /\ UNCHANGED <<cmdRev, ran, avars>>

\* root.Parse(tokens)
CommandParse(tokens) ==
    /\ cmdRev = "Parse" /\ ran.op = "none"
    /\ LET r == Command_Parse(cmds, 1, tokens)
       IN /\ cmds' = r.cmds
          /\ ran' = [op |-> "Parse", input |-> tokens, ret |-> <<>>, err |-> r.err,
                     outcome |-> r.outcome,
                     code |-> IF r.outcome = "exit" THEN ExitStatus ELSE 0,
                     trace |-> r.trace]
    /\ UNCHANGED <<cmdRev, avars>>

\* root.Run() after a Parse that returned.
CommandRun ==
    /\ cmdRev = "Parse" /\ ran.op = "Parse" /\ ran.outcome = "returned"
    /\ LET r == Command_RunParsed(cmds, 1)
       IN ran' = [op |-> "RunParsed", input |-> ran.input, ret |-> <<>>, err |-> r.err,
                  outcome |-> r.outcome, code |-> 0, trace |-> r.trace]
    /\ UNCHANGED <<cmdRev, cmds, avars>>

NextCmd ==
    \/ \E options \in NewOptionLists : NewRoot("Run", options) /\ UNCHANGED vvars
    \/ \E options \in SubCommandOptionLists : SubCommand(options) /\ UNCHANGED vvars
    \/ \E i \in 1..MaxDepth, f \in BoundFuncs : SetCallback(i, f) /\ UNCHANGED vvars
    \/ \E tokens \in CmdTokenLists : Run(tokens) /\ UNCHANGED vvars
    \/ \E options \in NewOptionLists : NewRoot("Parse", options) /\ UNCHANGED vvars
    \/ \E i \in 1..MaxDepth, f \in ParseFuncs : SetCallbackParse(i, f) /\ UNCHANGED vvars
    \/ \E i \in 1..MaxDepth : ArgumentsString(i) /\ UNCHANGED vvars
    \/ \E tokens \in CmdTokenLists : CommandParse(tokens) /\ UNCHANGED vvars
    \/ CommandRun /\ UNCHANGED vvars

SpecCmd == Init /\ [][NextCmd]_vars

----------------------------------------------------------------------------
\* The built-in scalar Values: bool, int, int64, uint, uint64, float64, string
\* and duration, each a Go variable with Set(text) and String().  A text is
\* the sequence of its characters.

\* The width of the integer types of the model, standing for Go's 64 bits:
\* int64 holds -2^(WordBits-1) .. 2^(WordBits-1)-1 and uint64 0 .. 2^WordBits-1.
WordBits == 4

\* strconv.IntSize: int and uint are as wide as int64 and uint64.
IntSize == WordBits

\* The largest finite float64 of the model, standing for math.MaxFloat64; the
\* finite float64 values are the halves up to it.
MaxFloat64 == 2 ^ WordBits

ScalarKinds == {"bool", "int", "int64", "uint", "uint64", "float64", "string", "duration"}

HexDigits == <<"0", "1", "2", "3", "4", "5", "6", "7", "8", "9", "a", "b", "c", "d", "e", "f">>

\* The value of character ch as a digit, 16 when it is none.
DigitValue(ch) ==
    IF \E d \in DOMAIN HexDigits : HexDigits[d] = ch
    THEN (CHOOSE d \in DOMAIN HexDigits : HexDigits[d] = ch) - 1
    ELSE 16

IsDigit(ch) == DigitValue(ch) < 10

\* The number a text of digits spells in a base.
RECURSIVE NumberIn(_, _)
NumberIn(base, text) ==
    IF text = <<>> THEN 0
    ELSE NumberIn(base, SubSeq(text, 1, Len(text) - 1)) * base + DigitValue(text[Len(text)])

\* The digits of n >= 0 in base 10.
RECURSIVE DigitsOf(_)
DigitsOf(n) ==
    IF n < 10 THEN <<HexDigits[n + 1]>>
    ELSE DigitsOf(n \div 10) \o <<HexDigits[(n % 10) + 1]>>

\* The string of a text.
RECURSIVE Join(_)
Join(text) == IF text = <<>> THEN "" ELSE Head(text) \o Join(Tail(text))

\* The base strconv reads an unsigned text in when asked for base 0, and the
\* digits left after the prefix that tells it.
BaseOf(text) ==
    IF Len(text) >= 2 /\ text[1] = "0"
    THEN IF text[2] \in {"x", "X"} THEN [base |-> 16, digits |-> SubSeq(text, 3, Len(text))]
         ELSE IF text[2] \in {"b", "B"} THEN [base |-> 2, digits |-> SubSeq(text, 3, Len(text))]
         ELSE IF text[2] \in {"o", "O"} THEN [base |-> 8, digits |-> SubSeq(text, 3, Len(text))]
         ELSE [base |-> 8, digits |-> Tail(text)]
    ELSE [base |-> 10, digits |-> text]

\* strconv.ParseUint(s, 0, bits): a text that is not a number of its base is
\* a syntax error with result 0, a number above the largest value a range
\* error with the largest value as result.
ParseUint(text, bits) ==
    LET b == BaseOf(text)
        n == NumberIn(b.base, b.digits)
    IN IF b.digits = <<>> \/ \E i \in DOMAIN b.digits : DigitValue(b.digits[i]) >= b.base
       THEN [v |-> 0, err |-> "NumError{ErrSyntax}"]
       ELSE IF n > 2 ^ bits - 1 THEN [v |-> 2 ^ bits - 1, err |-> "NumError{ErrRange}"]
       ELSE [v |-> n, err |-> nil]

\* strconv.ParseInt(s, 0, bits): an optional sign, then the unsigned number;
\* beyond the range the result is the nearest bound.
ParseIntText(text, bits) ==
    LET signed == text # <<>> /\ text[1] \in {"+", "-"}
        neg == signed /\ text[1] = "-"
        un == ParseUint(IF signed THEN Tail(text) ELSE text, bits)
        cutoff == 2 ^ (bits - 1)
    IN IF un.err = "NumError{ErrSyntax}" THEN [v |-> 0, err |-> un.err]
       ELSE IF ~neg /\ un.v >= cutoff THEN [v |-> cutoff - 1, err |-> "NumError{ErrRange}"]
       ELSE IF neg /\ un.v > cutoff THEN [v |-> -cutoff, err |-> "NumError{ErrRange}"]
       ELSE [v |-> IF neg THEN -un.v ELSE un.v, err |-> nil]

\* FormatInt leaving out the sign.
FormatInt_unsigned(v) == DigitsOf(IF v < 0 THEN -v ELSE v)

\* strconv.FormatInt(v, 10), strconv.Itoa, strconv.FormatUint(v, 10)
FormatInt(v) == IF v < 0 THEN <<"-">> \o DigitsOf(-v) ELSE DigitsOf(v)

\* strconv.FormatBool
FormatBool(b) == IF b THEN <<"t", "r", "u", "e">> ELSE <<"f", "a", "l", "s", "e">>

\* The number of digits a text begins with.
RECURSIVE LeadingDigits(_)
LeadingDigits(text) ==
    IF text = <<>> \/ ~IsDigit(Head(text)) THEN 0 ELSE 1 + LeadingDigits(Tail(text))

\* strconv.ParseFloat(s, 64) on the texts of the model: NaN, a signed Inf, or
\* a sign, digits and a fraction of .0 or .5 (the one a half has); a magnitude
\* above the largest finite value is a range error with an infinity as
\* result, any other text a syntax error with result 0.
ParseFloat(text) ==
    LET signed == text # <<>> /\ text[1] \in {"+", "-"}
        neg == signed /\ text[1] = "-"
        body == IF signed THEN Tail(text) ELSE text
        nd == LeadingDigits(body)
        frac == SubSeq(body, nd + 1, Len(body))
        halves == 2 * NumberIn(10, SubSeq(body, 1, nd)) + (IF frac = <<".", "5">> THEN 1 ELSE 0)
    IN IF Join(text) \in {"NaN", "nan"}
       THEN [c |-> "NaN", n |-> 0, err |-> nil]
       ELSE IF Join(body) \in {"Inf", "inf"}
       THEN [c |-> IF neg THEN "-Inf" ELSE "+Inf", n |-> 0, err |-> nil]
       ELSE IF nd = 0 \/ frac \notin {<<>>, <<".", "0">>, <<".", "5">>}
       THEN [c |-> "finite", n |-> 0, err |-> "NumError{ErrSyntax}"]
       ELSE IF halves > 2 * MaxFloat64
       THEN [c |-> IF neg THEN "-Inf" ELSE "+Inf", n |-> 0, err |-> "NumError{ErrRange}"]
       ELSE [c |-> "finite", n |-> IF neg THEN -halves ELSE halves, err |-> nil]

\* strconv.FormatFloat(f, 'g', -1, 64) on the float64 values of the model.
FormatFloat(c, n) ==
    IF c = "NaN" THEN <<"N", "a", "N">>
    ELSE IF c = "+Inf" THEN <<"+", "I", "n", "f">>
    ELSE IF c = "-Inf" THEN <<"-", "I", "n", "f">>
    ELSE (IF n < 0 THEN <<"-">> ELSE <<>>)
            \o DigitsOf((IF n < 0 THEN -n ELSE n) \div 2)
            \o (IF n % 2 = 1 THEN <<".", "5">> ELSE <<>>)

\* The units of a duration text among the characters of the model, in seconds.
UnitSeconds == [u \in {"h", "m", "s"} |-> IF u = "h" THEN 3600 ELSE IF u = "m" THEN 60 ELSE 1]

\* The number of characters of the unit a text begins with: up to the next
\* digit or point.
RECURSIVE LeadingUnit(_)
LeadingUnit(text) ==
    IF text = <<>> \/ IsDigit(Head(text)) \/ Head(text) = "." THEN 0
    ELSE 1 + LeadingUnit(Tail(text))

\* One number and unit of a duration text, rest being what the text after
\* them amounts to.
DurationSegment(text, nd, nu, rest) ==
    IF nd = 0 \/ nu # 1 THEN [ok |-> FALSE, v |-> 0]
    ELSE IF text[nd + 1] \notin DOMAIN UnitSeconds THEN [ok |-> FALSE, v |-> 0]
    ELSE IF ~rest.ok THEN rest
    ELSE [ok |-> TRUE, v |-> NumberIn(10, SubSeq(text, 1, nd)) * UnitSeconds[text[nd + 1]] + rest.v]

RECURSIVE DurationSegments(_)
DurationSegments(text) ==
    IF text = <<>> THEN [ok |-> TRUE, v |-> 0]
    ELSE DurationSegment(text, LeadingDigits(text),
                         LeadingUnit(SubSeq(text, LeadingDigits(text) + 1, Len(text))),
                         DurationSegments(SubSeq(text, LeadingDigits(text) + 2, Len(text))))

\* time.ParseDuration on the texts of the model (whole numbers with the units
\* h, m and s): an optional sign, then "0" or a list of numbers with units;
\* the result of a text it does not accept is 0.
ParseDuration(text) ==
    LET signed == text # <<>> /\ text[1] \in {"+", "-"}
        neg == signed /\ text[1] = "-"
        body == IF signed THEN Tail(text) ELSE text
        r == DurationSegments(body)
    IN IF body = <<"0">> THEN [v |-> 0, err |-> nil]
       ELSE IF body = <<>> \/ ~r.ok THEN [v |-> 0, err |-> "invalid duration"]
       ELSE [v |-> IF neg THEN -r.v ELSE r.v, err |-> nil]

\* time.Duration.String on a whole number of seconds.
DurationString(n) ==
    LET a == IF n < 0 THEN -n ELSE n
        h == a \div 3600
        m == (a % 3600) \div 60
        sec == a % 60
    IN (IF n < 0 THEN <<"-">> ELSE <<>>)
          \o (IF h > 0 THEN DigitsOf(h) \o <<"h">> ELSE <<>>)
          \o (IF h > 0 \/ m > 0 THEN DigitsOf(m) \o <<"m">> ELSE <<>>)
          \o DigitsOf(sec) \o <<"s">>

\* The error a Set of an integer or float64 Value returns for strconv's.
ConversionError(raw) == IF raw # nil THEN numError(raw) ELSE nil

\* Set(text) of the Value of a kind on the variable it is bound to: the new
\* content, strconv's or time's error (raw) and the error Set returns.  The
\* result of the conversion is stored whether or not it failed.
ScalarSet(kind, cell, text) ==
    CASE kind = "bool" ->
           LET r == ParseBool(Join(text))
           IN [cell |-> [cell EXCEPT !.b = r.v], raw |-> r.err,
               err |-> IF r.err # nil THEN "errParse" ELSE nil]
      [] kind \in {"int", "uint"} ->
           LET r == IF kind = "int" THEN ParseIntText(text, IntSize) ELSE ParseUint(text, IntSize)
           IN [cell |-> [cell EXCEPT !.n = r.v], raw |-> r.err, err |-> ConversionError(r.err)]
      [] kind \in {"int64", "uint64"} ->
           LET r == IF kind = "int64" THEN ParseIntText(text, WordBits)
                    ELSE ParseUint(text, WordBits)
           IN [cell |-> [cell EXCEPT !.n = r.v], raw |-> r.err, err |-> ConversionError(r.err)]
      [] kind = "float64" ->
           LET r == ParseFloat(text)
           IN [cell |-> [cell EXCEPT !.c = r.c, !.n = r.n], raw |-> r.err,
               err |-> ConversionError(r.err)]
      [] kind = "duration" ->
           LET r == ParseDuration(text)
           IN [cell |-> [cell EXCEPT !.n = r.v], raw |-> r.err,
               err |-> IF r.err # nil THEN "errParse" ELSE nil]
      [] OTHER -> [cell |-> [cell EXCEPT !.s = text], raw |-> nil, err |-> nil]

\* String() of the Value of a kind.
ScalarString(kind, cell) ==
    CASE kind = "bool" -> FormatBool(cell.b)
      [] kind \in {"int", "int64", "uint", "uint64"} -> FormatInt(cell.n)
      [] kind = "float64" -> FormatFloat(cell.c, cell.n)
      [] kind = "duration" -> DurationString(cell.n)
      [] OTHER -> cell.s

\* The texts given to Set.
Texts ==
    {<<>>, <<"0">>, <<"1">>, <<"7">>, <<"8">>, <<"-", "8">>, <<"-", "9">>, <<"1", "5">>,
     <<"1", "6">>, <<"+", "1">>, <<"0", "x", "1", "0">>, <<"0", "1", "0">>, <<"x">>,
     <<"t", "r", "u", "e">>, <<"F">>, <<"0", ".", "5">>, <<"-", "1", ".", "5">>,
     <<"9", "9">>, <<"-", "9", "9">>, <<"N", "a", "N">>, <<"+", "I", "n", "f">>,
     <<"1", "s">>, <<"1", "m", "4", "s">>, <<"-", "1", "h", "0", "m", "1", "s">>,
     <<"1", "x">>, <<"s">>}

\* The values a variable of a kind can hold.
Representable(kind) ==
    CASE kind = "bool" -> {[ZeroScalar EXCEPT !.b = b] : b \in BOOLEAN}
      [] kind \in {"int", "int64"} ->
           {[ZeroScalar EXCEPT !.n = n] : n \in -(2 ^ (WordBits - 1)) .. 2 ^ (WordBits - 1) - 1}
      [] kind \in {"uint", "uint64"} ->
           {[ZeroScalar EXCEPT !.n = n] : n \in 0 .. 2 ^ WordBits - 1}
      [] kind = "float64" ->
           {[ZeroScalar EXCEPT !.n = n] : n \in -(2 * MaxFloat64) .. 2 * MaxFloat64}
              \cup {[ZeroScalar EXCEPT !.c = c] : c \in {"+Inf", "-Inf", "NaN"}}
      [] kind = "duration" ->
           {[ZeroScalar EXCEPT !.n = n] : n \in {-3661, -60, -1, 0, 1, 59, 60, 64, 3600, 3661}}
      [] OTHER -> {[ZeroScalar EXCEPT !.s = t] : t \in Texts}

\* var v = x; the Value is (*kindValue)(&v).
NewValue(kind, x) ==
    /\ val.kind = "none"
    /\ val' = [kind |-> kind, v |-> x]
    /\ UNCHANGED <<vlast, query, avars, cvars>>

\* Set leaving the variable as it was when the conversion fails.
ValueSet_keep(text) ==
    /\ val.kind # "none"
    /\ LET r == ScalarSet(val.kind, val.v, text)
       IN /\ val' = IF r.err = nil THEN [val EXCEPT !.v = r.cell] ELSE val
          /\ vlast' = [op |-> "Set", text |-> text, before |-> val.v, raw |-> r.raw,
                       err |-> r.err]
    /\ UNCHANGED <<query, avars, cvars>>

\* value.Set(text)
ValueSet(text) ==
    /\ val.kind # "none"
    /\ LET r == ScalarSet(val.kind, val.v, text)
       IN /\ val' = [val EXCEPT !.v = r.cell]
          /\ vlast' = [op |-> "Set", text |-> text, before |-> val.v, raw |-> r.raw,
                       err |-> r.err]
    /\ UNCHANGED <<query, avars, cvars>>

\* value.Set(value.String())
ValueSetString ==
    /\ val.kind # "none"
    /\ LET text == ScalarString(val.kind, val.v)
           r == ScalarSet(val.kind, val.v, text)
       IN /\ val' = [val EXCEPT !.v = r.cell]
          /\ vlast' = [op |-> "SetString", text |-> text, before |-> val.v, raw |-> r.raw,
                       err |-> r.err]
    /\ UNCHANGED <<query, avars, cvars>>

\* The errors numError is given: strconv's, and errors that are not.
ConversionErrors == DOMAIN NumErrorErr \cup {"EOF", "userErr"}

\* numError(err)
NumError(err) ==
    /\ vlast' = [op |-> "numError", text |-> <<>>, before |-> val.v, raw |-> err,
                 err |-> numError(err)]
    /\ UNCHANGED <<val, query, avars, cvars>>

NextVal ==
    \/ \E kind \in ScalarKinds : \E x \in Representable(kind) : NewValue(kind, x)
    \/ \E text \in Texts : ValueSet(text)
    \/ ValueSetString
    \/ \E err \in ConversionErrors : NumError(err)

SpecVal == Init /\ [][NextVal]_vars

----------------------------------------------------------------------------
\* Query: ask on writer until a line read from reader is an acceptable answer.

MaxLines == 2      \* lines of the reader's input
MaxInvalid == 4    \* "Invalid input" is counted up to this many times

\* strings.ToLower on the characters of the model.
ToLower(text) ==
    [i \in DOMAIN text |-> IF text[i] = "Y" THEN "y" ELSE IF text[i] = "N" THEN "n" ELSE text[i]]

\* strings.TrimSpace: the text without the white space it begins and ends with.
RECURSIVE TrimLeft(_)
TrimLeft(text) ==
    IF text # <<>> /\ Head(text) \in {" ", "\n"} THEN TrimLeft(Tail(text)) ELSE text

RECURSIVE TrimRight(_)
TrimRight(text) ==
    IF text # <<>> /\ text[Len(text)] \in {" ", "\n"}
    THEN TrimRight(SubSeq(text, 1, Len(text) - 1))
    ELSE text

TrimSpace(text) == TrimRight(TrimLeft(text))

\* The lines a reader holds, each with the newline that ends it, and the
\* lists of acceptable answers Query is given.
Lines ==
    {<<"y", "\n">>, <<"Y", "\n">>, <<"n", "\n">>, <<" ", "Y", " ", "\n">>, <<"\n">>, <<"N">>}
Inputs == UNION {[1..n -> Lines] : n \in 0..MaxLines}
Acceptable == {{<<"Y">>}, {<<"y">>, <<" ", "N">>}, {<<"y">>, <<>>}}

\* buf.ReadString('\n'): the next line, or nothing at the end of the input
\* (the error is not looked at).
ReadString(lines) == IF lines = <<>> THEN <<>> ELSE Head(lines)

\* Query(reader, writer, message, acceptable...) up to its loop.
QueryCall(lines, acceptable) ==
    /\ query.pc = "none"
    /\ query' = [NoQuery EXCEPT !.pc = "prompt", !.input = lines, !.lines = lines,
                                !.accept = {ToLower(TrimSpace(a)) : a \in acceptable}]
    /\ UNCHANGED <<val, vlast, avars, cvars>>

\* The first half of a turn of the loop: write the message, read a line, trim
\* and lower-case it.
QueryPrompt ==
    /\ query.pc = "prompt"
    /\ query' = [query EXCEPT !.pc = "answer",
                              !.resp = ToLower(TrimSpace(ReadString(query.lines))),
                              !.lines = IF @ = <<>> THEN <<>> ELSE Tail(@)]
    /\ UNCHANGED <<val, vlast, avars, cvars>>

\* The second half: return an acceptable answer, write "Invalid input" for
\* any other and go round again.
QueryAnswer ==
    /\ query.pc = "answer"
    /\ IF query.resp \in query.accept
       THEN query' = [query EXCEPT !.pc = "returned"]
       ELSE query' = [query EXCEPT !.pc = "prompt",
                         !.invalid = IF @ < MaxInvalid THEN @ + 1 ELSE @]
    /\ UNCHANGED <<val, vlast, avars, cvars>>

NextQuery ==
    \/ \E lines \in Inputs, acceptable \in Acceptable : QueryCall(lines, acceptable)
    \/ QueryPrompt
    \/ QueryAnswer

\* The loop of Query runs on as long as it can.
SpecQuery == Init /\ [][NextQuery]_vars /\ WF_vars(QueryPrompt) /\ WF_vars(QueryAnswer)

----------------------------------------------------------------------------
\* Properties

NumNonSlice(as) == Cardinality({i \in DOMAIN as : ~IsSliceValue(as[i])})
PlainOnly(as) == \A i \in DOMAIN as : ~IsSliceValue(as[i])

\* Argument i is reached by the loop of Parse: no SliceValue precedes it.
Reached(i) == \A j \in 1..(i - 1) : ~IsSliceValue(args[j])

\* The Set calls of the last Parse that went to argument i.
CallsOn(i) == {j \in DOMAIN last.calls : last.calls[j].arg = i}

\* C1: Parse fails with NotEnoughArguments exactly when it is given fewer
\* tokens than there are non-slice arguments; a SliceValue adds nothing to the
\* number of tokens required.
C1_NotEnoughIffFewerThanNonSlice ==
    last.parsed =>
        (last.perr = "errNumArguments" <=> Len(last.input) < NumNonSlice(args))

\* C2: when the list ends in a SliceValue after plain Values that all convert,
\* the SliceValue gets every remaining token in exactly one Set call, whatever
\* the length of the tail, zero included.
C2_SliceGetsTailInOneCall ==
    LET n == Len(args)
    IN (/\ last.parsed
        /\ n > 0
        /\ IsSliceValue(args[n])
        /\ PlainOnly(SubSeq(args, 1, n - 1))
        /\ Len(last.input) >= n - 1
        /\ \A i \in 1..(n - 1) : Value_Set(args[i], ZeroCell, last.input[i]).err = nil)
       => /\ Cardinality(CallsOn(n)) = 1
          /\ \A j \in CallsOn(n) : last.calls[j].toks = SliceTail(last.input, n)

\* C3: a successful Parse of n plain Values with at least n tokens calls Set
\* exactly once on each argument, in declared order, argument i with token i.
C3_OneSetPerArgumentInOrder ==
    (last.parsed /\ PlainOnly(args) /\ Len(last.input) >= Len(args) /\ last.perr = nil)
    => /\ Len(last.calls) = Len(args)
       /\ \A i \in DOMAIN args :
             /\ last.calls[i] = [arg |-> i, toks |-> <<last.input[i]>>]
             /\ store[i] = Value_Set(args[i], last.pre[i], last.input[i]).cell

C3_Witness ==
    /\ last.op = "Parse" /\ last.perr = nil /\ PlainOnly(args)
    /\ Len(args) = 2 /\ Len(last.input) = 2 /\ last.input[1] # last.input[2]
    /\ Len(last.calls) = 2

\* C4: when Set fails on argument k, Parse returns that failure at once: the
\* arguments before k hold the values converted in this call, no Set is called
\* on an argument after k and their storage is as it was.
C4_FailureStopsWithoutRollback ==
    (last.parsed /\ last.perr \notin {nil, "errNumArguments"})
    => LET k == Len(last.calls)
       IN /\ k >= 1
          /\ \A j \in 1..k : last.calls[j].arg = j
          /\ last.perr = IF IsSliceValue(args[k])
                         THEN intSlice_Set(last.pre[k], SliceTail(last.input, k)).err
                         ELSE Value_Set(args[k], last.pre[k], last.input[k]).err
          /\ \A i \in 1..(k - 1) :
                /\ Value_Set(args[i], last.pre[i], last.input[i]).err = nil
                /\ store[i] = Value_Set(args[i], last.pre[i], last.input[i]).cell
          /\ \A i \in (k + 1)..Len(args) : store[i] = last.pre[i]

C4_Witness ==
    /\ last.op = "Parse" /\ last.perr = "errParse"
    /\ Len(args) = 2 /\ Len(last.calls) = 2
    /\ store[1] # last.pre[1]

\* C5: a Parse that fails with NotEnoughArguments, called directly or by the
\* closure of a binder, calls no Set and leaves every bound variable as it was.
C5_NotEnoughTouchesNothing ==
    (last.parsed /\ last.perr = "errNumArguments")
    => /\ store = last.pre
       /\ last.calls = <<>>
       /\ ~last.invoked

C5_Witness ==
    /\ last.op = "callback" /\ last.perr = "errNumArguments"
    /\ Len(args) = 2 /\ Len(last.input) = 1
    /\ \E i \in DOMAIN store : store[i] # ZeroCell

\* C6: an Arguments list holds at most one SliceValue and it is the last
\* element, whatever registrations were made.
C6_SliceValueIsLast ==
    \A i \in DOMAIN args : IsSliceValue(args[i]) => i = Len(args)

\* C7: after a second (or later) successful Parse every plain Value's variable
\* is determined by the tokens of that call alone: the conversion of its own
\* token, or the untouched initial value when a SliceValue precedes it.
C7_ReparseRebinds ==
    (last.parsed /\ last.perr = nil /\ nOps >= 2)
    => \A i \in DOMAIN args :
          ~IsSliceValue(args[i]) =>
             store[i] = IF Reached(i)
                        THEN Value_Set(args[i], ZeroCell, last.input[i]).cell
                        ELSE ZeroCell

C7_Witness ==
    /\ last.op = "Parse" /\ last.perr = nil /\ nOps = 2
    /\ \E i \in DOMAIN args :
          /\ ~IsSliceValue(args[i])
          /\ last.pre[i] # ZeroCell
          /\ store[i] # last.pre[i]

\* C8: once construction has recorded an error, every step is a dispatch that
\* returns that error and the tokens it was given, without entering Parse,
\* touching the storage or calling the function; the error stays recorded.
C8_ConstructionErrorLatched ==
    [][(cb.rev # "none" /\ cb.inputErr # nil)
       => /\ cb' = cb
          /\ store' = store
          /\ input' = input
          /\ args' = args
          /\ last'.op = "callback"
          /\ last'.err = cb.inputErr
          /\ last'.ret = last'.input
          /\ ~last'.parsed
          /\ last'.calls = <<>>
          /\ ~last'.invoked]_vars

C8_Witness ==
    /\ cb.rev = "process" /\ cb.inputErr # nil
    /\ last.op = "callback" /\ nOps = 2
    /\ Len(last.input) = 2
    /\ last.err = cb.inputErr

\* A non-pointer type that has the Value methods on its pointer receiver only.
BareValueParam(T) == ~IsPtr(T) /\ ~ImplementsValue(T) /\ ImplementsValue(PtrTo(T))

PtrForm(T) == IF IsPtr(T) THEN T ELSE PtrTo(T)
AcceptsAsValue(T) == ImplementsValue(PtrForm(T))
AcceptsAsSliceValue(T) == ImplementsSliceValue(PtrForm(T))
Supported(T) == T = "int" \/ AcceptsAsValue(T) \/ AcceptsAsSliceValue(T)

Dispatched == last.op = "callback" /\ last.parsed

\* C11: when Arguments.Parse fails inside the closure, the closure returns
\* that very failure with the token list it was given, and the bound function
\* is not called.
C11_ParseFailureReturnedWithInput ==
    (Dispatched /\ last.perr # nil)
    => /\ last.perr = Arguments_Parse(args, last.pre, <<>>, last.input).err
       /\ last.err = last.perr
       /\ last.ret = last.input
       /\ ~last.invoked
       /\ last.values = <<>>

C11_Witness ==
    /\ Dispatched /\ cb.t = <<"int">>
    /\ last.input = <<"yo">>
    /\ last.perr = "errParse"
    /\ last.ret = <<"yo">>

C14_ErrorIsLastResult ==
    (Dispatched /\ last.perr = nil)
    => LET n == Len(last.results)
       IN last.err = IF n > 0 /\ last.results[n].isErr /\ last.results[n].v # nil
                     THEN last.results[n].v
                     ELSE nil

C14_Witness ==
    /\ Dispatched /\ last.invoked
    /\ Len(last.results) = 2 /\ ~last.results[1].isErr
    /\ last.err = "userErr"

----------------------------------------------------------------------------
\* Properties of the Command tree

\* Event k of the last traversal, and the tests on it used below.
IsEvent(k, ev) == k \in DOMAIN ran.trace /\ ran.trace[k].ev = ev
HandlerGot(i, err) ==
    \E k \in DOMAIN ran.trace :
        IsEvent(k, "handleErr") /\ ran.trace[k].node = i /\ ran.trace[k].err = err

\* Nothing below node i was parsed or run.
NothingBelow(i) == \A k \in DOMAIN ran.trace : ran.trace[k].node <= i

\* What the binder of node i had before the traversal: new storage, no input.
FreshArguments(i) ==
    [args |-> cmds[i].arguments.args,
     store |-> [j \in DOMAIN cmds[i].arguments.args |-> ZeroCell], input |-> <<>>]

\* The parse the closure of node i makes of tokens.
ClosureParse(i, tokens) ==
    Arguments_Parse(FreshArguments(i).args, FreshArguments(i).store, <<>>, tokens)

\* C13: a dispatch whose parse succeeds returns the tokens its positional
\* arguments did not consume (tokens[n:] for n scalar parameters, none when a
\* slice parameter took the tail), and Command.Run selects the child with
\* those returned tokens: none left is RequiredCommand, the first one names
\* the child, which is run with the rest, or is an UnknownCommand.
C13_RemainingTokensSelectChild ==
    \A k \in DOMAIN ran.trace :
        LET e == ran.trace[k]
            i == e.node
            t == cmds[i].Callback.binder.t
        IN (ran.op = "Run" /\ e.ev = "callback" /\ ClosureParse(i, e.toks).err = nil)
           => /\ e.ret = IF \E j \in DOMAIN t : IsSliceValue(cmds[i].arguments.args[j])
                         THEN <<>>
                         ELSE SubSeq(e.toks, Len(t) + 1, Len(e.toks))
              /\ (cmds[i].SubCommands # <<>> /\ e.err = nil)
                    => /\ IsEvent(k + 1, IF e.ret # <<>> /\ Lookup(cmds, i, e.ret[1]) # 0
                                         THEN "Run" ELSE "handleErr")
                       /\ ran.trace[k + 1] =
                            IF e.ret = <<>>
                            THEN [Event("handleErr", i) EXCEPT !.err = "ErrRequiredCommand"]
                            ELSE IF Lookup(cmds, i, e.ret[1]) = 0
                            THEN [Event("handleErr", i) EXCEPT
                                     !.err = "ErrUnknownCommand " \o e.ret[1]]
                            ELSE [Event("Run", Lookup(cmds, i, e.ret[1])) EXCEPT
                                     !.toks = Tail(e.ret)]

C13_Witness ==
    /\ ran.op = "Run" /\ ran.input = <<"1", "foo", "1">>
    /\ cmds[1].Callback.binder.t = <<"int">>
    /\ \E k \in DOMAIN ran.trace :
          /\ IsEvent(k, "callback") /\ ran.trace[k].node = 1
          /\ ran.trace[k].ret = <<"foo", "1">>
          /\ IsEvent(k + 1, "Run") /\ ran.trace[k + 1].node = 2
          /\ ran.trace[k + 1].toks = <<"1">>

\* No child of node i was selected: it has none to select in the Run(args)
\* revision, Parse left subCommand nil in the earlier one.
NoChildSelected(i) ==
    IF cmdRev = "Run" THEN cmds[i].SubCommands = <<>> ELSE cmds[i].subCommand = 0

\* C15: Run on a node that has no callback bound and no child selected returns
\* NoCommandFunc as an error value and does not crash, whether the node is the
\* root or a selected child.
C15_NoCallbackNoChildIsNoCommandFunc ==
    \A k \in DOMAIN ran.trace :
        LET e == ran.trace[k]
        IN (ran.op \in {"Run", "RunParsed"} /\ e.ev = "Run"
               /\ ~cmds[e.node].Callback.bound /\ NoChildSelected(e.node))
           => ran.outcome # "crash" /\ Is(ran.err, "ErrNoCommandFunc")

\* The child the callback event e of node i leaves selected, 0 when none: the
\* one its returned tokens name in the Run(args) revision, the one Parse
\* selected in the earlier one.
SelectedAfter(e) ==
    IF cmdRev = "Run"
    THEN IF e.ret = <<>> THEN 0 ELSE Lookup(cmds, e.node, e.ret[1])
    ELSE cmds[e.node].subCommand

\* C16: a node's callback is invoked before anything of a child is run; when
\* it returns a non-nil error, whatever the error, Run returns that error and
\* no child is run, so no child's callback is invoked; when it returns nil and
\* a child is selected, the child's Run comes next.
C16_CallbackErrorStopsDispatch ==
    \A k \in DOMAIN ran.trace :
        LET e == ran.trace[k]
        IN (ran.op \in {"Run", "RunParsed"} /\ e.ev = "callback")
           => /\ \A j \in 1..(k - 1) : ran.trace[j].node <= e.node
              /\ e.err # nil
                    => /\ \A j \in DOMAIN ran.trace :
                             j > k => ran.trace[j].ev \notin {"Run", "callback"}
                       /\ ran.err = e.err
              /\ (e.err = nil /\ SelectedAfter(e) # 0)
                    => IsEvent(k + 1, "Run") /\ ran.trace[k + 1].node = SelectedAfter(e)

\* Event k shows its node, one with children, left with no token once its
\* flags and positional arguments are consumed: Run entered with none and no
\* callback to take any, the callback returned none, or Parse was given as
\* many as the node's Arguments take.
LeftWithNone(k) ==
    LET e == ran.trace[k]
        i == e.node
    IN /\ cmds[i].SubCommands # <<>>
       /\ \/ ran.op = "Run" /\ e.ev = "Run" /\ ~cmds[i].Callback.bound /\ e.toks = <<>>
          \/ ran.op = "Run" /\ e.ev = "callback" /\ e.err = nil /\ e.ret = <<>>
          \/ ran.op = "Parse" /\ e.ev = "Parse" /\ Len(e.toks) = Len(cmds[i].arguments.args)

\* C17: a node with at least one child that is left with no token after its
\* flags and positional arguments are consumed fails with RequiredCommand, and
\* no child is parsed or run.
C17_NoTokenIsRequiredCommand ==
    /\ \A k \in DOMAIN ran.trace :
          LeftWithNone(k)
             => HandlerGot(ran.trace[k].node, "ErrRequiredCommand")
                   /\ NothingBelow(ran.trace[k].node)
    /\ ran.op = "RunParsed"
          => \A i \in DOMAIN cmds :
                (cmds[i].SubCommands # <<>> /\ cmds[i].subCommand = 0) => NothingBelow(i)

C17_Witness ==
    /\ ran.op = "Run" /\ ran.input = <<"1">>
    /\ \E k \in DOMAIN ran.trace :
          /\ LeftWithNone(k) /\ ran.trace[k].ev = "callback" /\ ran.trace[k].node = 1
          /\ ran.trace[k].toks = <<"1">>
    /\ ran.err = "ErrRequiredCommand"

\* The selector tokens event k shows for its node, one with children: the
\* first token left after its flags and positional arguments (at most one).
Selector(k) ==
    LET e == ran.trace[k]
        i == e.node
        n == Len(cmds[i].arguments.args)
    IN IF cmds[i].SubCommands = <<>> THEN {}
       ELSE IF ran.op = "Run" /\ e.ev = "Run" /\ ~cmds[i].Callback.bound /\ e.toks # <<>>
       THEN {e.toks[1]}
       ELSE IF ran.op = "Run" /\ e.ev = "callback" /\ e.err = nil /\ e.ret # <<>>
       THEN {e.ret[1]}
       ELSE IF ran.op = "Parse" /\ e.ev = "Parse" /\ Len(e.toks) > n
       THEN {e.toks[n + 1]}
       ELSE {}

\* The names of the children of node i.
ChildNames(i) == {cmds[cmds[i].SubCommands[j]].Name : j \in DOMAIN cmds[i].SubCommands}

\* C18: a node with children whose selector token is the name of none of them
\* fails with UnknownCommand, and no child is parsed or run.
C18_UnmatchedSelectorIsUnknownCommand ==
    \A k \in DOMAIN ran.trace :
        \A sel \in Selector(k) :
            sel \notin ChildNames(ran.trace[k].node)
               => /\ \E h \in DOMAIN ran.trace :
                        /\ IsEvent(h, "handleErr") /\ ran.trace[h].node = ran.trace[k].node
                        /\ Is(ran.trace[h].err, "ErrUnknownCommand")
                  /\ NothingBelow(ran.trace[k].node)

C18_Witness ==
    /\ ran.op = "Parse" /\ ran.input = <<"1">>
    /\ cmds[1].SubCommands # <<>>
    /\ Selector(1) = {"1"}
    /\ HandlerGot(1, "ErrUnknownCommand")

\* The child of node i registered under name.
ChildNamed(i, name) ==
    CHOOSE ch \in DOMAIN cmds :
        (\E j \in DOMAIN cmds[i].SubCommands : cmds[i].SubCommands[j] = ch)
            /\ cmds[ch].Name = name

\* The string variable bound to the one argument of node i.
BoundString(i) == cmds[i].arguments.store[1].s

\* C19: when the selector token of Parse is the name of a child, the parent
\* has consumed its own positional tokens and the selector, and the child is
\* parsed with exactly the tokens after the selector: the variable bound to
\* the parent's Arguments holds the parent's token, the one bound to the
\* child's Arguments the child's token.
C19_ChildParsedWithTokensAfterSelector ==
    \A k \in DOMAIN ran.trace :
        \A sel \in Selector(k) :
            LET e == ran.trace[k]
                i == e.node
                n == Len(cmds[i].arguments.args)
                ch == ChildNamed(i, sel)
                rest == SubSeq(e.toks, n + 2, Len(e.toks))
            IN (ran.op = "Parse" /\ sel \in ChildNames(i))
               => /\ cmds[i].subCommand = ch
                  /\ n = 1 => BoundString(i) = e.toks[1]
                  /\ \E h \in DOMAIN ran.trace :
                        /\ h > k /\ IsEvent(h, "Parse") /\ ran.trace[h].node = ch
                        /\ ran.trace[h].toks = rest
                  /\ (Len(cmds[ch].arguments.args) = 1 /\ rest # <<>>)
                        => BoundString(ch) = rest[1]

C19_Witness ==
    /\ ran.op = "Parse" /\ ran.input = <<"foo", "foo", "1">> /\ ran.err = nil
    /\ Len(cmds) = 2
    /\ Len(cmds[1].arguments.args) = 1 /\ BoundString(1) = "foo"
    /\ Len(cmds[2].arguments.args) = 1 /\ BoundString(2) = "1"

\* The Command node i was added to as a subcommand.
Parent(i) ==
    CHOOSE p \in DOMAIN cmds : \E j \in DOMAIN cmds[p].SubCommands : cmds[p].SubCommands[j] = i

\* The handler entered at event k returns err to the caller of Run and writes
\* nothing: Run on the root returns it, Run on a child hands it to the parent,
\* whose own handler is the next thing entered.
HandedBack(k, err) ==
    IF ran.trace[k].node = 1
    THEN k = Len(ran.trace) /\ ran.outcome = "returned" /\ ran.err = err
    ELSE /\ IsEvent(k + 1, "handleErr")
         /\ ran.trace[k + 1].node = Parent(ran.trace[k].node)
         /\ ran.trace[k + 1].err = err

\* C20: an error handler given a non-nil error returns that error to the
\* caller and writes nothing under ContinueOnError; writes it to the node's
\* output sink and ends the process under ExitOnError; panics with it under
\* PanicOnError.  Given nil it returns nil and writes nothing under every
\* policy.
C20_ErrorHandlingPolicies ==
    \A k \in DOMAIN ran.trace :
        LET e == ran.trace[k]
            policy == cmds[e.node].errorHandling
        IN (ran.op = "Run" /\ e.ev = "handleErr")
           => /\ (e.err = nil \/ policy = ContinueOnError) => HandedBack(k, e.err)
              /\ (e.err # nil /\ policy = ExitOnError)
                    => /\ k + 1 = Len(ran.trace)
                       /\ ran.trace[k + 1] =
                             [Event("print", e.node) EXCEPT
                                 !.err = e.err, !.sink = cmds[e.node].output,
                                 !.usage = ran.trace[k + 1].usage]
                       /\ ran.outcome = "exit" /\ ran.code = ExitStatus
              /\ (e.err # nil /\ policy = PanicOnError)
                    => k = Len(ran.trace) /\ ran.outcome = "panic" /\ ran.err = e.err

C20_Witness ==
    /\ ran.op = "Run" /\ ran.outcome = "exit" /\ ran.code = ExitStatus
    /\ cmds[1].errorHandling = ExitOnError /\ cmds[1].output = "buf"
    /\ Len(ran.trace) >= 2
    /\ ran.trace[Len(ran.trace)].ev = "print"
    /\ ran.trace[Len(ran.trace)].sink = "buf"
    /\ ran.trace[Len(ran.trace)].err = "ErrRequiredCommand"

\* The errors a handler can be given, by class: the usage errors, and those
\* of a Value or of a user's function (errParse and errRange of the built-in
\* Values, strconv's own error from intSlice, a user's error).
UsageErrors ==
    {"errNumArguments", "ErrRequiredCommand", "ErrNoCommandFunc"}
        \cup {"ErrUnknownCommand " \o n : n \in CmdTokens}
PlainErrors == {"errParse", "errRange", "NumError{ErrSyntax}", "userErr"}

\* C21: under ExitOnError the usage text follows the error line if and only
\* if the error is a usage error (not enough arguments, UnknownCommand,
\* RequiredCommand, NoCommandFunc); a parse error, a range error and an error
\* of a user's function print the error line alone.  Stated of every print
\* Run made, and of the root's handler given each error of the package.
C21_UsageFollowsUsageErrorsOnly ==
    /\ \A k \in DOMAIN ran.trace :
          (ran.op = "Run" /\ ran.trace[k].ev = "print")
             => /\ ran.trace[k].err \in UsageErrors \cup PlainErrors
                /\ ran.trace[k].usage = (ran.trace[k].err \in UsageErrors)
    /\ (cmdRev = "Run" /\ cmds[1].errorHandling = ExitOnError)
          => \A err \in UsageErrors \cup PlainErrors :
                /\ Len(handleErr(cmds[1], 1, err).trace) = 2
                /\ handleErr(cmds[1], 1, err).trace[2].ev = "print"
                /\ handleErr(cmds[1], 1, err).trace[2].usage = (err \in UsageErrors)

C21_Witness ==
    /\ ran.op = "Run" /\ ran.outcome = "exit"
    /\ ran.trace[Len(ran.trace)].ev = "print"
    /\ ran.trace[Len(ran.trace)].err = "errParse"
    /\ ~ran.trace[Len(ran.trace)].usage

\* What a child attached to parent p with the given options is to have: the
\* parent's policy and sink, then the options applied over them.
Inherited(p, options) ==
    ApplyOptions([errorHandling |-> p.errorHandling, output |-> p.output], options)

\* C22: a child attached with SubCommand has, right after the attachment, the
\* error-handling policy and the output sink its parent has at that moment,
\* except where an option given to SubCommand overrides them; the options are
\* applied after the inheritance.
C22_ChildInheritsPolicyAndSink ==
    [][(Len(cmds) >= 1 /\ Len(cmds') = Len(cmds) + 1)
          => \E options \in SubCommandOptionLists :
                /\ cmds'[Len(cmds')].errorHandling
                      = Inherited(cmds[Len(cmds)], options).errorHandling
                /\ cmds'[Len(cmds')].output = Inherited(cmds[Len(cmds)], options).output]_vars

\* Every node has the ContinueOnError policy.
AllReport == \A i \in DOMAIN cmds : cmds[i].errorHandling = ContinueOnError

\* C23: with ContinueOnError on every node the error the root's Run returns
\* is the error as it was produced: the error a callback returned (the user
\* function's own, or the one of its Values or Arguments), and the error the
\* deepest failing node handed to its handler, reach the root's caller
\* unmodified, whatever the depth.
C23_ErrorReachesRootUnmodified ==
    (AllReport /\ ran.op \in {"Run", "RunParsed"})
       => \A k \in DOMAIN ran.trace :
             /\ (ran.trace[k].ev = "callback" /\ ran.trace[k].err # nil)
                   => ran.outcome = "returned" /\ ran.err = ran.trace[k].err
             /\ (ran.trace[k].ev = "handleErr" /\ ran.trace[k].err # nil
                    /\ \A j \in 1..(k - 1) : ran.trace[j].ev # "handleErr")
                   => ran.outcome = "returned" /\ ran.err = ran.trace[k].err

\* The errors of child selection.
SelectionErrors == {"ErrRequiredCommand"} \cup {"ErrUnknownCommand " \o n : n \in CmdTokens}

\* C26: Run(args) validates the selection of a child only after the node's
\* own callback has run: when a node fails with RequiredCommand or
\* UnknownCommand, the callback of that node and of every node Run entered on
\* the way to it, where one is bound, has been invoked before and has
\* returned nil.
C26_SelectionValidatedAfterCallbacks ==
    \A k \in DOMAIN ran.trace :
        (ran.op = "Run" /\ ran.trace[k].ev = "handleErr"
            /\ ran.trace[k].err \in SelectionErrors)
           => \A h \in 1..(k - 1) :
                 (ran.trace[h].ev = "Run" /\ cmds[ran.trace[h].node].Callback.bound)
                    => \E g \in (h + 1)..(k - 1) :
                          /\ ran.trace[g].ev = "callback"
                          /\ ran.trace[g].node = ran.trace[h].node
                          /\ ran.trace[g].err = nil

\* The handlers of the last traversal that were given an error.
Handled == {k \in DOMAIN ran.trace : ran.trace[k].ev = "handleErr" /\ ran.trace[k].err # nil}

C28_ParseNeverCrashes ==
    (ran.op = "Parse" /\ AllReport) => ran.outcome = "returned"

\* The kinds whose Set converts with strconv's ParseInt, ParseUint or ParseFloat.
NumericKinds == {"int", "int64", "uint", "uint64", "float64"}

\* C24: numError turns a syntax failure of a numeric conversion into
\* ParseError and an overflow into RangeError, and hands back any other
\* failure, and any error that is not a conversion's, as it is; Set of every
\* integer and float64 Value returns what numError makes of the conversion's
\* error.
C24_NumErrorMapsConversionFailures ==
    /\ vlast.op = "numError" =>
         /\ vlast.raw = "NumError{ErrSyntax}" => vlast.err = "errParse"
         /\ vlast.raw = "NumError{ErrRange}" => vlast.err = "errRange"
         /\ vlast.raw = "NumError{EOF}" => vlast.err = "EOF"
         /\ vlast.raw \in {"EOF", "userErr"} => vlast.err = vlast.raw
    /\ vlast.op \in {"Set", "SetString"} /\ val.kind \in NumericKinds =>
         /\ vlast.raw = nil => vlast.err = nil
         /\ vlast.raw = "NumError{ErrSyntax}" => vlast.err = "errParse"
         /\ vlast.raw = "NumError{ErrRange}" => vlast.err = "errRange"
         /\ vlast.raw \in {nil, "NumError{ErrSyntax}", "NumError{ErrRange}"}

\* Set of an int Value with a number too large for it returned RangeError.
C24_Witness ==
    /\ vlast.op = "Set" /\ val.kind = "int"
    /\ vlast.raw = "NumError{ErrRange}" /\ vlast.err = "errRange"

\* Go's == on the contents of two variables of a kind: NaN equals nothing.
GoEqual(kind, x, y) ==
    IF kind = "float64"
    THEN x.c # "NaN" /\ y.c # "NaN" /\ x.c = y.c /\ (x.c = "finite" => x.n = y.n)
    ELSE x = y

\* C25 as stated: for each of the eight built-in kinds and every value v a
\* variable of the kind can hold, Set(String()) succeeds and leaves the
\* variable equal to v.
C25_SetOfStringRestoresValue ==
    vlast.op = "SetString" =>
        vlast.err = nil /\ GoEqual(val.kind, val.v, vlast.before)

\* C25 amended: Set(String()) succeeds for every value of every built-in
\* kind and leaves the variable equal to what it held, except that a float64
\* holding NaN holds NaN again, which is equal to no float64.
C25_SetOfStringRestoresValueButNaN ==
    vlast.op = "SetString" =>
        /\ vlast.err = nil
        /\ val.v = vlast.before
        /\ GoEqual(val.kind, val.v, vlast.before)
             <=> ~(val.kind = "float64" /\ vlast.before.c = "NaN")

\* A duration of 64 seconds rendered as 1m4s and set from it is 64 seconds.
C25_Witness ==
    /\ vlast.op = "SetString" /\ val.kind = "duration"
    /\ vlast.text = <<"1", "m", "4", "s">> /\ vlast.before.n = 64
    /\ val.v.n = 64 /\ vlast.err = nil

\* What a failed conversion hands back for a kind: the zero value after a
\* syntax failure, the nearest bound of the type or an infinity after an
\* overflow.
Fallbacks(kind, raw) ==
    IF raw # "NumError{ErrRange}" THEN {ZeroScalar}
    ELSE CASE kind = "int" ->
                {[ZeroScalar EXCEPT !.n = n] : n \in {-(2 ^ (IntSize - 1)), 2 ^ (IntSize - 1) - 1}}
           [] kind = "int64" ->
                {[ZeroScalar EXCEPT !.n = n] : n \in {-(2 ^ (WordBits - 1)), 2 ^ (WordBits - 1) - 1}}
           [] kind = "uint" -> {[ZeroScalar EXCEPT !.n = 2 ^ IntSize - 1]}
           [] kind = "uint64" -> {[ZeroScalar EXCEPT !.n = 2 ^ WordBits - 1]}
           [] OTHER -> {[ZeroScalar EXCEPT !.c = c] : c \in {"+Inf", "-Inf"}}

\* C29: a Set of a built-in bool, integer, float64 or duration Value that
\* fails still writes the variable: it then holds what the conversion handed
\* back (the zero value after a syntax failure), whatever it held before.
C29_FailedSetOverwritesStorage ==
    vlast.op = "Set" /\ vlast.err # nil =>
        /\ val.kind # "string"
        /\ val.v \in Fallbacks(val.kind, vlast.raw)
        /\ vlast.err = "errParse" => val.v = ZeroScalar

\* An int holding 3 holds 0 after Set("x") failed with ParseError.
C29_Witness ==
    /\ vlast.op = "Set" /\ val.kind = "int" /\ vlast.text = <<"x">>
    /\ vlast.err = "errParse" /\ vlast.before.n = 3 /\ val.v.n = 0

\* The lines of the input that are an acceptable answer once trimmed and
\* lower-cased, by their place in the input.
Matching == {k \in DOMAIN query.input : ToLower(TrimSpace(query.input[k])) \in query.accept}

\* Query returned the answer of the first matching line, having written
\* "Invalid input" once for each line before it.
ReturnedFirstMatch ==
    query.pc = "returned" /\ Matching # {} =>
        \E k \in Matching :
            /\ \A j \in Matching : k <= j
            /\ query.resp = ToLower(TrimSpace(query.input[k]))
            /\ query.invalid = k - 1

\* C30: Query returns the trimmed, lower-cased answer of the first line of
\* the input that is acceptable whatever its case, having written "Invalid
\* input" exactly once for each line it rejected before; and Query returns
\* for every finite input, one without any acceptable answer included.
C30_QueryReturnsFirstAcceptable ==
    /\ []ReturnedFirstMatch
    /\ (query.pc = "prompt") ~> (query.pc = "returned")

====
